---- MODULE Spec2Model ----
(***************************************************************************)
(* Model of sql_tool.py: one POST /api/query request handled by query(),   *)
(* which runs run_query() (two model completions with a sequential tool    *)
(* dispatch loop in between), the tool registry call_function(), and the   *)
(* SQLite adapter query_perfbench_db().                                    *)
(*                                                                         *)
(* Python values are modelled as records [t, s, items]:                    *)
(*   None -> t = "null"; a number -> t = "num" (s its digits);             *)
(*   a str -> t = "str" (s its characters); a list -> t = "list" (items    *)
(*   its elements, each with k = ""); a dict -> t = "obj" (items its       *)
(*   key/value pairs in insertion order).                                  *)
(* A text (a str handed to json.loads, or made by json.dumps) is a record  *)
(* [valid, val]: valid says whether json.loads accepts it, val is what it  *)
(* decodes to (for a text that is not JSON, val only names the text).      *)
(***************************************************************************)
EXTENDS Integers, Sequences, FiniteSets, TLC

\* Largest number of tool-call requests in the model's first reply.
MaxToolCalls == 2

----------------------------------------------------------------------------
\* Python / JSON values

JNull == [t |-> "null", s |-> "", items |-> <<>>]
JNum(d) == [t |-> "num", s |-> d, items |-> <<>>]
JStr(c) == [t |-> "str", s |-> c, items |-> <<>>]
JList(elems) == [t |-> "list", s |-> "",
                 items |-> [i \in 1..Len(elems) |-> [k |-> "", v |-> elems[i]]]]
JObj(pairs) == [t |-> "obj", s |-> "", items |-> pairs]
Pair(key, val) == [k |-> key, v |-> val]

\* Keys of a dict, in insertion order.
DictKeys(d) == [i \in 1..Len(d.items) |-> d.items[i].k]

\* `key in d` for a dict d.
DictHas(d, key) == \E i \in 1..Len(d.items) : d.items[i].k = key

\* d[key] for a dict d that has the key.
DictGet(d, key) == LET i == CHOOSE j \in 1..Len(d.items) : d.items[j].k = key
                   IN d.items[i].v

\* d[key] = val: an existing key keeps its position, a new key goes last.
DictSet(d, key, val) ==
    IF DictHas(d, key)
    THEN [d EXCEPT !.items =
            [i \in 1..Len(d.items) |->
                IF d.items[i].k = key THEN Pair(key, val) ELSE d.items[i]]]
    ELSE [d EXCEPT !.items = Append(d.items, Pair(key, val))]

\* The dict left by d.pop(key).
DictPop(d, key) ==
    [d EXCEPT !.items = SelectSeq(d.items, LAMBDA p : p.k # key)]

\* dict(pairs): the pairs are inserted left to right.
RECURSIVE DictOf(_)
DictOf(pairs) ==
    IF pairs = <<>> THEN JObj(<<>>)
    ELSE DictSet(DictOf(SubSeq(pairs, 1, Len(pairs) - 1)),
                 pairs[Len(pairs)].k, pairs[Len(pairs)].v)

\* zip(a, b): pairs up to the shorter length.
Zip(a, b) ==
    LET n == IF Len(a) < Len(b) THEN Len(a) ELSE Len(b)
    IN [i \in 1..n |-> Pair(a[i], b[i])]

\* json.loads / json.dumps
PlainText(c) == [valid |-> FALSE, val |-> JStr(c)]
Dumps(v) == [valid |-> TRUE, val |-> v]
LoadsOk(text) == text.valid
Loads(text) == text.val

----------------------------------------------------------------------------
\* The store: table perf_data and SQLite's execution of a statement.

Schema == <<"jobid", "date", "useremail", "vcpu", "mem", "capacitygroup",
            "containers", "benchmarks", "benchmarkcontext", "result">>

Row(jobid, mem, bench) ==
    [c \in {Schema[i] : i \in 1..Len(Schema)} |->
        CASE c = "jobid" -> JStr(jobid)
          [] c = "mem" -> JNum(mem)
          [] c = "benchmarks" -> JStr(bench)
          [] c = "date" -> JStr("2024-01-01")
          [] c = "useremail" -> JStr("u@example.com")
          [] OTHER -> JNull]

\* Rows in the engine's scan order.
PerfData == << Row("j2", "64000", "specjbb2015"),
               Row("j1", "32000", "fio"),
               Row("j3", "96000", "specjbb2015") >>

\* What SQLite's parser makes of each SQL text of the model.
Col(expr, name) == [expr |-> expr, name |-> name]
Statement(kind, table, cols, where) ==
    [kind |-> kind, table |-> table, cols |-> cols, where |-> where]

SqlTexts == { "SELECT jobid, mem FROM perf_data",
              "SELECT jobid, mem AS jobid FROM perf_data WHERE benchmarks = 'specjbb2015'",
              "SELECT nocol FROM perf_data",
              "SELECT jobid FROM nope",
              "DELETE FROM perf_data WHERE benchmarks = 'none'",
              "SELEC" }

SqlParse(sql) ==
    CASE sql = "SELECT jobid, mem FROM perf_data" ->
            Statement("select", "perf_data",
                      <<Col("jobid", "jobid"), Col("mem", "mem")>>, <<>>)
      [] sql = "SELECT jobid, mem AS jobid FROM perf_data WHERE benchmarks = 'specjbb2015'" ->
            Statement("select", "perf_data",
                      <<Col("jobid", "jobid"), Col("mem", "jobid")>>,
                      <<"benchmarks", "specjbb2015">>)
      [] sql = "SELECT nocol FROM perf_data" ->
            Statement("select", "perf_data", <<Col("nocol", "nocol")>>, <<>>)
      [] sql = "SELECT jobid FROM nope" ->
            Statement("select", "nope", <<Col("jobid", "jobid")>>, <<>>)
      [] sql = "DELETE FROM perf_data WHERE benchmarks = 'none'" ->
            Statement("delete", "perf_data", <<>>, <<"benchmarks", "none">>)
      [] OTHER -> Statement("syntax_error", "", <<>>, <<>>)

InSchema(c) == \E i \in 1..Len(Schema) : Schema[i] = c

\* cursor.execute(sql) followed by cursor.description and cursor.fetchall():
\* err is the sqlite3.Error message ("" when the statement executes),
\* description is None (hasDescription = FALSE) for a statement that returns
\* no result columns, columns are description[i][0], rows the fetched rows.
CursorResult(err, hasDescription, columns, rows) ==
    [err |-> err, hasDescription |-> hasDescription,
     columns |-> columns, rows |-> rows]

SqliteExecute(sql) ==
    LET st == SqlParse(sql)
        missing == { i \in 1..Len(st.cols) : ~InSchema(st.cols[i].expr) }
        matches(r) == st.where = <<>> \/ r[st.where[1]] = JStr(st.where[2])
        hit == SelectSeq(PerfData, matches)
    IN CASE st.kind = "syntax_error" ->
              CursorResult("near \"SELEC\": syntax error", FALSE, <<>>, <<>>)
         [] st.table # "perf_data" ->
              CursorResult("no such table: nope", FALSE, <<>>, <<>>)
         [] missing # {} ->
              CursorResult("no such column: nocol", FALSE, <<>>, <<>>)
         [] st.kind = "delete" ->
              CursorResult("", FALSE, <<>>, <<>>)
         [] OTHER ->
              CursorResult("", TRUE,
                  [i \in 1..Len(st.cols) |-> st.cols[i].name],
                  [r \in 1..Len(hit) |->
                      [i \in 1..Len(st.cols) |-> hit[r][st.cols[i].expr]]])

----------------------------------------------------------------------------
\* Inputs: what the model may reply, and whether the database file exists.

ToolName == "query_perfbench_db"

\* The `arguments` texts a tool-call request may carry.
QueryArgs(q) == Dumps(JObj(<<Pair("query", q)>>))
KnownToolArguments ==
    { QueryArgs(JStr(sql)) : sql \in SqlTexts }
    \cup { QueryArgs(JNull),
           Dumps(JObj(<<>>)),
           Dumps(JObj(<<Pair("query", JStr("SELECT jobid, mem FROM perf_data")),
                        Pair("limit", JNum("5"))>>)),
           Dumps(JNum("5")),
           PlainText("{\"query\": ") }
OtherToolArguments ==
    { QueryArgs(JStr("SELECT jobid, mem FROM perf_data")),
      Dumps(JObj(<<>>)),
      PlainText("{\"query\": ") }

ToolCallVariants ==
    { [name |-> ToolName, arguments |-> a] : a \in KnownToolArguments }
    \cup { [name |-> "get_weather", arguments |-> a] : a \in OtherToolArguments }

\* The tool_calls of a first reply: up to MaxToolCalls requests, ids by position.
ToolCallSeqs ==
    UNION { { [i \in 1..n |-> [id |-> i, name |-> f[i].name,
                               arguments |-> f[i].arguments]] :
              f \in [1..n -> ToolCallVariants] } : n \in 0..MaxToolCalls }

\* The final reply's content.
Absent == [t |-> "absent", s |-> "", items |-> <<>>]
ObjectOf(pairs) == JObj(SelectSeq(pairs, LAMBDA p : p.v # Absent))
SampleRecord == JObj(<<Pair("jobid", JStr("j2")), Pair("mem", JNum("64000"))>>)
FinalObjects ==
    { ObjectOf(<<Pair("results", rs), Pair("response", rsp),
                 Pair("explanation", ex), Pair("result", rsl),
                 Pair("sql_query", sq)>>) :
        rs \in {Absent, JList(<<SampleRecord>>)},
        rsp \in {Absent, JNull, JStr("r")},
        ex \in {Absent, JNull, JStr("x")},
        rsl \in {Absent, JStr("y")},
        sq \in {Absent, JStr("SELECT 1")} }
FinalNonObjects ==
    { JNull, JNum("5"), JStr("abc"), JStr("response"),
      JList(<<>>), JList(<<JStr("explanation")>>) }
FinalTexts ==
    { PlainText("I don't know.") }
    \cup { Dumps(v) : v \in FinalObjects \cup FinalNonObjects }

----------------------------------------------------------------------------
\* State of one request.

VARIABLES
    pc,                  \* where the request is
    db_exists,           \* whether one of possible_paths exists
    messages,            \* run_query's transcript
    submitted,           \* the transcripts handed to client.chat.completions.create
    tool_calls,          \* completion.choices[0].message.tool_calls
    idx,                 \* position of the for loop over tool_calls
    executed_sql_query,  \* run_query's executed_sql_query
    query,               \* query_perfbench_db's argument
    open_conns,          \* connections opened and not closed
    conns_made,          \* connections opened so far, in order
    conn,                \* query_perfbench_db's conn (0: none)
    pending,             \* what the try block leaves for after the finally clause
    result,              \* call_function's return value
    final_content,       \* completion_2.choices[0].message.content
    returned,            \* run_query's return value
    exc,                 \* the exception propagating out of run_query ("": none)
    http_status,         \* the endpoint's answer (0: none yet)
    http_body

vars == <<pc, db_exists, messages, submitted, tool_calls, idx,
          executed_sql_query, query, open_conns, conns_made, conn, pending,
          result, final_content, returned, exc, http_status, http_body>>

Msg(role, content, tool_call_id, calls) ==
    [role |-> role, content |-> content, tool_call_id |-> tool_call_id,
     tool_calls |-> calls]
SystemMessage == Msg("system", PlainText("system_prompt"), 0, <<>>)
UserMessage ==
    Msg("user", PlainText("question Return the results in JSON format."), 0, <<>>)
AssistantMessage(calls) == Msg("assistant", PlainText(""), 0, calls)
ToolMessage(id, content) == Msg("tool", content, id, <<>>)

NoOutcome == [exc |-> "", val |-> JNull]
Returns(v) == [exc |-> "", val |-> v]
Raises(e) == [exc |-> e, val |-> JNull]

Init ==
    /\ pc = "init"
    /\ db_exists \in BOOLEAN
    /\ messages = <<>>
    /\ submitted = <<>>
    /\ tool_calls = <<>>
    /\ idx = 0
    /\ executed_sql_query = JNull
    /\ query = JNull
    /\ open_conns = {}
    /\ conns_made = <<>>
    /\ conn = 0
    /\ pending = NoOutcome
    /\ result = JNull
    /\ final_content = PlainText("")
    /\ returned = JNull
    /\ exc = ""
    /\ http_status = 0
    /\ http_body = JNull

----------------------------------------------------------------------------
\* run_query, up to the tool dispatch loop

\* messages = [system, user]; executed_sql_query = None
BuildTranscript ==
    /\ pc = "init"
    /\ messages' = <<SystemMessage, UserMessage>>
    /\ executed_sql_query' = JNull
    /\ pc' = "first_completion"
    /\ UNCHANGED <<db_exists, submitted, tool_calls, idx, query, open_conns,
                   conns_made, conn, pending, result, final_content, returned,
                   exc, http_status, http_body>>

\* Step 1: the first completion answers; its message is appended.
FirstCompletion ==
    /\ pc = "first_completion"
    /\ \E calls \in ToolCallSeqs :
        /\ tool_calls' = calls
        /\ messages' = Append(messages, AssistantMessage(calls))
        /\ idx' = IF calls = <<>> THEN 0 ELSE 1
        /\ pc' = IF calls = <<>> THEN "final_completion" ELSE "dispatch"
    /\ submitted' = Append(submitted, [messages |-> messages, tools |-> TRUE])
    /\ UNCHANGED <<db_exists, executed_sql_query, query, open_conns,
                   conns_made, conn, pending, result, final_content, returned,
                   exc, http_status, http_body>>

\* A completion call fails (network, auth, rate limit): nothing catches it.
CompletionFails ==
    /\ pc \in {"first_completion", "final_completion"}
    /\ submitted' = Append(submitted,
                           [messages |-> messages,
                            tools |-> (pc = "first_completion")])
    /\ exc' = "APIError"
    /\ pc' = "raised"
    /\ UNCHANGED <<db_exists, messages, tool_calls, idx, executed_sql_query,
                   query, open_conns, conns_made, conn, pending, result,
                   final_content, returned, http_status, http_body>>

\* `key in v`: TypeError for None and numbers, else membership.
PyInRaises(v) == v.t \in {"null", "num"}
PyIn(key, v) ==
    CASE v.t = "obj" -> DictHas(v, key)
      [] v.t = "list" -> \E i \in 1..Len(v.items) : v.items[i].v = JStr(key)
      [] v.t = "str" -> v.s = key   \* no str of the model strictly contains a key
      [] OTHER -> FALSE

\* Variant: the SQL is recorded whatever the tool's name.
RecordsSqlAnyName(name, args) == PyIn("query", args)

\* `name == "query_perfbench_db" and "query" in args`
RecordsSql(name, args) == name = ToolName /\ PyIn("query", args)

\* call_function's dispatch by name
IsRegistered(name) == name = ToolName

\* query_perfbench_db(**args) binds: args is a mapping with exactly the key query.
BindsQuery(args) == args.t = "obj" /\ DictKeys(args) = <<"query">>

\* The loop body up to call_function's dispatch: decode the arguments, record
\* the SQL, then either enter query_perfbench_db or get None for another name.
DispatchToolCall ==
    /\ pc = "dispatch"
    /\ LET tc == tool_calls[idx]
           args == Loads(tc.arguments)
           fails ==
               IF ~LoadsOk(tc.arguments) THEN "JSONDecodeError"
               ELSE IF tc.name = ToolName /\ PyInRaises(args) THEN "TypeError"
               ELSE IF IsRegistered(tc.name) /\ ~BindsQuery(args) THEN "TypeError"
               ELSE ""
           records == LoadsOk(tc.arguments) /\ ~PyInRaises(args)
                      /\ RecordsSql(tc.name, args)
       IN /\ executed_sql_query' =
                IF records THEN DictGet(args, "query") ELSE executed_sql_query
          /\ exc' = fails
          /\ pc' = CASE fails # "" -> "raised"
                     [] IsRegistered(tc.name) -> "adapter_connect"
                     [] OTHER -> "append_tool"
          /\ query' = IF fails = "" /\ IsRegistered(tc.name)
                      THEN DictGet(args, "query") ELSE JNull
          /\ result' = JNull
    /\ UNCHANGED <<db_exists, messages, submitted, tool_calls, idx, open_conns,
                   conns_made, conn, pending, final_content, returned,
                   http_status, http_body>>

----------------------------------------------------------------------------
\* query_perfbench_db

\* Lines 69-89: find the database file, then connect.
AdapterConnect ==
    /\ pc = "adapter_connect"
    /\ IF db_exists
       THEN /\ conn' = Len(conns_made) + 1
            /\ conns_made' = Append(conns_made, Len(conns_made) + 1)
            /\ open_conns' = open_conns \cup {Len(conns_made) + 1}
            /\ pc' = "adapter_try"
            /\ exc' = exc
       ELSE /\ exc' = "FileNotFoundError"
            /\ pc' = "raised"
            /\ UNCHANGED <<conn, conns_made, open_conns>>
    /\ UNCHANGED <<db_exists, messages, submitted, tool_calls, idx,
                   executed_sql_query, query, pending, result, final_content,
                   returned, http_status, http_body>>

\* Variant: the rows are returned last first.
RowsToDictsReversed(columns, rows) ==
    JList([r \in 1..Len(rows) |-> DictOf(Zip(columns, rows[Len(rows) + 1 - r]))])

\* results = [dict(zip(columns, row)) for row in raw_results]
RowsToDicts(columns, rows) ==
    JList([r \in 1..Len(rows) |-> DictOf(Zip(columns, rows[r]))])

\* Variant: no except clause, sqlite3.Error propagates.
TryBlockNoExcept(q) ==
    IF q.t # "str" THEN Raises("TypeError")
    ELSE LET c == SqliteExecute(q.s)
         IN CASE c.err # "" -> Raises("sqlite3.Error")
              [] ~c.hasDescription -> Raises("TypeError")
              [] OTHER -> Returns(JObj(<<Pair("results",
                                        RowsToDicts(c.columns, c.rows))>>))

\* The try block and its except clause: what is left to do after `finally`.
TryBlock(q) ==
    IF q.t # "str" THEN Raises("TypeError")          \* execute() wants a str
    ELSE LET c == SqliteExecute(q.s)
         IN CASE c.err # "" -> Returns(JObj(<<Pair("error", JStr(c.err))>>))
              [] ~c.hasDescription -> Raises("TypeError")  \* iterating None
              [] OTHER -> Returns(JObj(<<Pair("results",
                                        RowsToDicts(c.columns, c.rows))>>))

AdapterTry ==
    /\ pc = "adapter_try"
    /\ pending' = TryBlock(query)
    /\ pc' = "adapter_finally"
    /\ UNCHANGED <<db_exists, messages, submitted, tool_calls, idx,
                   executed_sql_query, query, open_conns, conns_made, conn,
                   result, final_content, returned, exc, http_status, http_body>>

\* Variant: conn.close() after the try statement instead of in `finally`.
ClosesOnFallThrough(outcome) ==
    outcome.exc = "" /\ DictHas(outcome.val, "results")

\* Whether the connection is closed on the way out of the try statement:
\* the finally clause runs whatever the try block left pending.
ClosesConnection(outcome) == TRUE

\* finally: conn.close(); then the pending return or exception takes effect.
AdapterFinally ==
    /\ pc = "adapter_finally"
    /\ open_conns' = IF ClosesConnection(pending)
                     THEN open_conns \ {conn} ELSE open_conns
    /\ conn' = 0
    /\ query' = JNull
    /\ pending' = NoOutcome
    /\ exc' = pending.exc
    /\ result' = pending.val
    /\ pc' = IF pending.exc # "" THEN "raised" ELSE "append_tool"
    /\ UNCHANGED <<db_exists, messages, submitted, tool_calls, idx,
                   executed_sql_query, conns_made, final_content, returned,
                   http_status, http_body>>

----------------------------------------------------------------------------
\* run_query, from the tool message to the return

\* Variant: the tool message is put in front of the transcript.
PrependToolMessage ==
    /\ pc = "append_tool"
    /\ messages' = <<ToolMessage(tool_calls[idx].id, Dumps(result))>> \o messages
    /\ result' = JNull
    /\ idx' = IF idx = Len(tool_calls) THEN idx ELSE idx + 1
    /\ pc' = IF idx = Len(tool_calls) THEN "final_completion" ELSE "dispatch"
    /\ UNCHANGED <<db_exists, submitted, tool_calls, executed_sql_query, query,
                   open_conns, conns_made, conn, pending, final_content,
                   returned, exc, http_status, http_body>>

\* messages.append({"role": "tool", "tool_call_id": ..., "content": json.dumps(result)})
AppendToolMessage ==
    /\ pc = "append_tool"
    /\ messages' = Append(messages, ToolMessage(tool_calls[idx].id, Dumps(result)))
    /\ result' = JNull
    /\ idx' = IF idx = Len(tool_calls) THEN idx ELSE idx + 1
    /\ pc' = IF idx = Len(tool_calls) THEN "final_completion" ELSE "dispatch"
    /\ UNCHANGED <<db_exists, submitted, tool_calls, executed_sql_query, query,
                   open_conns, conns_made, conn, pending, final_content,
                   returned, exc, http_status, http_body>>

\* Step 3: the final completion, without the tool declaration.
FinalCompletion ==
    /\ pc = "final_completion"
    /\ submitted' = Append(submitted, [messages |-> messages, tools |-> FALSE])
    /\ \E content \in FinalTexts : final_content' = content
    /\ pc' = "normalize"
    /\ UNCHANGED <<db_exists, messages, tool_calls, idx, executed_sql_query,
                   query, open_conns, conns_made, conn, pending, result,
                   returned, exc, http_status, http_body>>

DefaultResponse == JStr("Query completed successfully.")
ErrorResponse(sql) ==
    JObj(<<Pair("results", JList(<<>>)),
           Pair("response", JStr("Error processing results")),
           Pair("sql_query", sql)>>)

\* response_json["response"] = response_json.pop(key)
Rename(d, key) == DictSet(DictPop(d, key), "response", DictGet(d, key))

\* Variant: explanation is never taken.
AliasNothing(d) == d

\* if "explanation" in response_json and "response" not in response_json
AliasExplanation(d) ==
    IF PyIn("explanation", d) /\ ~PyIn("response", d)
    THEN Rename(d, "explanation") ELSE d

\* if "response" not in response_json: take result, else the default
EnsureResponse(d) ==
    IF PyIn("response", d) THEN d
    ELSE IF PyIn("result", d) THEN Rename(d, "result")
    ELSE DictSet(d, "response", DefaultResponse)

\* if "results" not in response_json: response_json["results"] = []
EnsureResults(d) ==
    IF PyIn("results", d) THEN d ELSE DictSet(d, "results", JList(<<>>))

\* The try statement that parses the final reply. Only a dict supports every
\* operation applied to response_json: None and numbers fail at the first
\* `in`, a str at pop or item assignment, a list at pop or item assignment.
ParseResponse(text, sql) ==
    IF ~LoadsOk(text) THEN Returns(ErrorResponse(sql))   \* except json.JSONDecodeError
    ELSE LET response_json == Loads(text)
         IN CASE response_json.t = "obj" ->
                   Returns(DictSet(EnsureResults(EnsureResponse(
                               AliasExplanation(response_json))),
                           "sql_query", sql))
              [] response_json.t = "str"
                 /\ PyIn("explanation", response_json)
                 /\ ~PyIn("response", response_json) -> Raises("AttributeError")
              [] OTHER -> Raises("TypeError")

Normalize ==
    /\ pc = "normalize"
    /\ LET out == ParseResponse(final_content, executed_sql_query)
       IN /\ exc' = out.exc
          /\ returned' = out.val
          /\ pc' = IF out.exc # "" THEN "raised" ELSE "returned"
    /\ UNCHANGED <<db_exists, messages, submitted, tool_calls, idx,
                   executed_sql_query, query, open_conns, conns_made, conn,
                   pending, result, final_content, http_status, http_body>>

----------------------------------------------------------------------------
\* The endpoint query()

\* QueryResponse: results is a list of dicts, response a str, sql_query a
\* str or None.
FitsQueryResponse(d) ==
    /\ DictGet(d, "results").t = "list"
    /\ \A i \in 1..Len(DictGet(d, "results").items) :
           DictGet(d, "results").items[i].v.t = "obj"
    /\ DictGet(d, "response").t = "str"
    /\ DictGet(d, "sql_query").t \in {"str", "null"}

\* The fields of QueryResponse, in its order.
AsQueryResponse(d) ==
    JObj(<<Pair("results", DictGet(d, "results")),
           Pair("response", DictGet(d, "response")),
           Pair("sql_query", DictGet(d, "sql_query"))>>)

\* Lines 276-279: fill in the required fields.
EnsureFields(d) ==
    LET a == IF DictHas(d, "response") THEN d
             ELSE DictSet(d, "response", JStr("Query executed successfully."))
    IN IF DictHas(a, "results") THEN a ELSE DictSet(a, "results", JList(<<>>))

\* run_query returned: the result goes out through response_model.
EndpointReturns ==
    /\ pc = "returned"
    /\ LET out == EnsureFields(returned)
       IN IF FitsQueryResponse(out)
          THEN http_status' = 200 /\ http_body' = AsQueryResponse(out)
          ELSE http_status' = 500 /\ http_body' = JNull
    /\ pc' = "responded"
    /\ UNCHANGED <<db_exists, messages, submitted, tool_calls, idx,
                   executed_sql_query, query, open_conns, conns_made, conn,
                   pending, result, final_content, returned, exc>>

\* except Exception: raise HTTPException(status_code=500, detail=str(e))
EndpointRaises ==
    /\ pc = "raised"
    /\ http_status' = 500
    /\ http_body' = JObj(<<Pair("detail", JStr(exc))>>)
    /\ pc' = "responded"
    /\ UNCHANGED <<db_exists, messages, submitted, tool_calls, idx,
                   executed_sql_query, query, open_conns, conns_made, conn,
                   pending, result, final_content, returned, exc>>

Next ==
    \/ BuildTranscript
    \/ FirstCompletion
    \/ CompletionFails
    \/ DispatchToolCall
    \/ AdapterConnect
    \/ AdapterTry
    \/ AdapterFinally
    \/ AppendToolMessage
    \/ FinalCompletion
    \/ Normalize
    \/ EndpointReturns
    \/ EndpointRaises

Spec == Init /\ [][Next]_vars
----------------------------------------------------------------------------
\* Properties

\* run_query has returned a value (to the endpoint, or already answered).
RunQueryReturned == pc = "returned" \/ (pc = "responded" /\ exc = "")

\* The final reply has been through the parsing try statement.
ResponseParsed ==
    /\ pc \in {"returned", "raised", "responded"}
    /\ final_content \in FinalTexts

\* C1: the normalization step is total: whatever text the final reply is,
\* it returns a dict with `results` and `response` and raises nothing.
C1_NormalizationTotal ==
    ResponseParsed =>
        /\ exc = ""
        /\ returned.t = "obj"
        /\ DictHas(returned, "results")
        /\ DictHas(returned, "response")

\* C2: every value run_query returns has a `results` key and a `response`
\* key whose value is not None.
C2_ResultsAndResponsePresent ==
    RunQueryReturned =>
        /\ DictHas(returned, "results")
        /\ DictHas(returned, "response")
        /\ DictGet(returned, "response") # JNull

\* A tool call whose SQL the dispatch loop captures.
Captured(tc) ==
    /\ tc.name = "query_perfbench_db"
    /\ LoadsOk(tc.arguments)
    /\ Loads(tc.arguments).t = "obj"
    /\ DictHas(Loads(tc.arguments), "query")

\* The query argument of the last captured call, None when there is none.
LastCapturedQuery(calls) ==
    LET hits == { i \in 1..Len(calls) : Captured(calls[i]) }
    IN IF hits = {} THEN JNull
       ELSE LET last == CHOOSE i \in hits : \A j \in hits : j <= i
            IN DictGet(Loads(calls[last].arguments), "query")

\* C3: in every value run_query returns, sql_query is the query argument of
\* the last captured query_perfbench_db call (None without one), on the
\* decoded path and on the decode-failure path, whatever sql_query the
\* final reply carried.
C3_SqlQueryIsLastCaptured ==
    RunQueryReturned =>
        /\ DictHas(returned, "sql_query")
        /\ DictGet(returned, "sql_query") = LastCapturedQuery(tool_calls)

\* C3 witness: two captured calls, the final reply carries its own sql_query,
\* and the returned one is the second call's SQL.
C3_Witness ==
    /\ RunQueryReturned
    /\ Len(tool_calls) = 2
    /\ Captured(tool_calls[1]) /\ Captured(tool_calls[2])
    /\ Loads(tool_calls[1].arguments) # Loads(tool_calls[2].arguments)
    /\ LoadsOk(final_content)
    /\ Loads(final_content).t = "obj"
    /\ DictHas(Loads(final_content), "sql_query")
    /\ DictGet(returned, "sql_query") = JStr("SELECT nocol FROM perf_data")

\* C4: sql_query is None only if no tool was invoked: a returned value of a
\* request whose first reply held a tool call has a sql_query that is not None.
C4_SqlQueryNullOnlyWithoutTool ==
    (RunQueryReturned /\ tool_calls # <<>>) =>
        DictGet(returned, "sql_query") # JNull

\* C5: query_perfbench_db never raises: given any SQL text, what it leaves
\* the try statement with is a returned {results} or {error}.
C5_AdapterNeverRaises ==
    (pc = "adapter_finally" /\ query.t = "str") =>
        /\ pending.exc = ""
        /\ DictKeys(pending.val) \in {<<"results">>, <<"error">>}

\* C6: every connection query_perfbench_db opens is closed before the call
\* returns or raises, so outside its try statement no connection is open;
\* inside, the one open connection is the one this invocation made, and no
\* invocation gets a connection an earlier one had.
C6_ConnectionsClosed ==
    /\ pc \notin {"adapter_try", "adapter_finally"} => open_conns = {}
    /\ pc \in {"adapter_try", "adapter_finally"} =>
           /\ open_conns = {conn}
           /\ conn = conns_made[Len(conns_made)]
    /\ \A i, j \in 1..Len(conns_made) : i # j => conns_made[i] # conns_made[j]

\* The tool message of call i carries this payload.
ToolMessageHas(i, payload) ==
    /\ Len(messages) >= 3 + i
    /\ messages[3 + i] = ToolMessage(tool_calls[i].id, Dumps(payload))

\* C6 witness: the first invocation returned {error}, the second one raised
\* out of the try block, and both connections are closed.
C6_Witness ==
    /\ pc = "raised"
    /\ exc = "TypeError"
    /\ Len(conns_made) = 2
    /\ open_conns = {}
    /\ ToolMessageHas(1, JObj(<<Pair("error", JStr("no such table: nope"))>>))

\* C7: the endpoint answers with an error status only when a completion
\* call failed; otherwise it answers 200 with {results, response, sql_query}.
C7_ErrorStatusOnlyOnCompletionFailure ==
    pc = "responded" =>
        \/ exc = "APIError"
        \/ /\ http_status = 200
           /\ DictKeys(http_body) = <<"results", "response", "sql_query">>

\* The SQL of tool call i fails in the store: the call is bound to
\* query_perfbench_db, the database file exists, and SQLite reports an error.
DbErrorAt(i) ==
    /\ db_exists
    /\ tool_calls[i].name = "query_perfbench_db"
    /\ LoadsOk(tool_calls[i].arguments)
    /\ Loads(tool_calls[i].arguments).t = "obj"
    /\ DictKeys(Loads(tool_calls[i].arguments)) = <<"query">>
    /\ DictGet(Loads(tool_calls[i].arguments), "query").t = "str"
    /\ SqliteExecute(DictGet(Loads(tool_calls[i].arguments), "query").s).err # ""

DbErrorPayload(i) ==
    JObj(<<Pair("error",
        JStr(SqliteExecute(DictGet(Loads(tool_calls[i].arguments), "query").s).err))>>)

\* The request is past call i: its tool message is due.
Dispatched(i) ==
    \/ idx > i
    \/ idx = i /\ pc \in {"final_completion", "normalize", "returned"}
    \/ idx = i /\ pc \in {"raised", "responded"} /\ Len(submitted) = 2

AdapterSucceeded ==
    /\ pc = "adapter_finally"
    /\ pending.exc = ""
    /\ DictHas(pending.val, "results")

ReturnedRecords == DictGet(pending.val, "results").items

RECURSIVE FirstOccurrences(_)
FirstOccurrences(names) ==
    IF names = <<>> THEN <<>>
    ELSE LET front == FirstOccurrences(SubSeq(names, 1, Len(names) - 1))
             n == names[Len(names)]
         IN IF \E i \in 1..Len(front) : front[i] = n THEN front
            ELSE Append(front, n)

C10_ResponseFallbacks ==
    (RunQueryReturned /\ LoadsOk(final_content)) =>
        LET d == Loads(final_content)
        IN DictGet(returned, "response") =
              IF DictHas(d, "response") THEN DictGet(d, "response")
              ELSE IF DictHas(d, "explanation") THEN DictGet(d, "explanation")
              ELSE IF DictHas(d, "result") THEN DictGet(d, "result")
              ELSE JStr("Query completed successfully.")

\* C10 witness: explanation and result both present without response, and
\* the explanation wins.
C10_Witness ==
    /\ RunQueryReturned
    /\ LoadsOk(final_content)
    /\ ~DictHas(Loads(final_content), "response")
    /\ DictHas(Loads(final_content), "explanation")
    /\ DictHas(Loads(final_content), "result")
    /\ DictGet(Loads(final_content), "explanation") = JStr("x")
    /\ DictGet(Loads(final_content), "result") = JStr("y")
    /\ DictGet(returned, "response") = JStr("x")

\* What the invocation asked for by tool call tc hands back: the adapter's
\* value for query_perfbench_db, None for any other name.
InvocationResult(tc) ==
    IF tc.name = "query_perfbench_db"
    THEN TryBlock(DictGet(Loads(tc.arguments), "query")).val
    ELSE JNull

\* System, user, the first reply, then the tool messages of the first n
\* tool calls in the order received, each with its call's id and result.
TranscriptAfter(n) ==
    <<SystemMessage, UserMessage,
      [role |-> "assistant", content |-> PlainText(""), tool_call_id |-> 0,
       tool_calls |-> tool_calls]>>
    \o [i \in 1..n |->
          [role |-> "tool",
           content |-> Dumps(InvocationResult(tool_calls[i])),
           tool_call_id |-> tool_calls[i].id,
           tool_calls |-> <<>>]]

\* The request is inside the dispatch of tool call idx.
Dispatching ==
    \/ pc \in {"dispatch", "adapter_connect", "adapter_try", "adapter_finally",
               "append_tool"}
    \/ pc \in {"raised", "responded"} /\ Len(submitted) = 1 /\ idx > 0

\* C11: the tool calls are dispatched one at a time in the order received:
\* while call idx is dispatched the transcript holds the tool messages of
\* exactly the calls before it, and the adapter works on that call's query
\* with at most one connection open. The transcript submitted to the final
\* completion is the system message, the user message, the first reply,
\* then one tool message per tool call in the same order with that call's
\* id and the serialized result of its own invocation; no tool message
\* comes before the assistant reply, and the final call is issued only
\* after every tool call has been dispatched.
C11_TranscriptOrder ==
    /\ Dispatching =>
          /\ idx \in 1..Len(tool_calls)
          /\ messages = TranscriptAfter(idx - 1)
          /\ Len(submitted) = 1
    /\ pc \in {"adapter_connect", "adapter_try", "adapter_finally"} =>
          /\ query = DictGet(Loads(tool_calls[idx].arguments), "query")
          /\ Cardinality(open_conns) <= 1
    /\ Len(submitted) >= 1 =>
          submitted[1] = [messages |-> <<SystemMessage, UserMessage>>,
                          tools |-> TRUE]
    /\ Len(submitted) = 2 =>
          /\ submitted[2] = [messages |-> TranscriptAfter(Len(tool_calls)),
                             tools |-> FALSE]
          /\ messages = submitted[2].messages
    /\ \A k \in 1..Len(messages) :
          messages[k].role = "tool" =>
              k > 3 /\ messages[3].role = "assistant"

\* C11 witness: two tool calls with different results were dispatched and
\* the final completion got the five-message transcript.
C11_Witness ==
    /\ pc = "normalize"
    /\ Len(tool_calls) = 2
    /\ Len(submitted) = 2
    /\ Len(submitted[2].messages) = 5
    /\ submitted[2].messages[4].tool_call_id = tool_calls[1].id
    /\ submitted[2].messages[5].tool_call_id = tool_calls[2].id
    /\ submitted[2].messages[4].content = Dumps(JNull)
    /\ submitted[2].messages[5].content =
          Dumps(JObj(<<Pair("error", JStr("no such column: nocol"))>>))

====
